---- MODULE Spec2Model ----
(***************************************************************************)
(* A model of the face_detection program: the configuration singleton      *)
(* (backend/config_loader.py), the two camera captors                      *)
(* (backend/image_captor.py), the displayer (frontend/image_displayer.py)  *)
(* and the detection loop (backend/object_detection_models.py) as it is    *)
(* driven by main.py.                                                      *)
(*                                                                         *)
(* Four specifications share the variables:                                *)
(*   Spec        main.py: captor construction, run_model, interpreter exit *)
(*   SpecCaptor  the captor classes driven through their public methods    *)
(*   SpecConfig  ConfigLoader driven through __new__ and get_config        *)
(*   SpecDisplay ImageDisplayer.show_frame_on_monitor called with any      *)
(*               monitor index and frame                                   *)
(***************************************************************************)
EXTENDS Integers, Sequences, FiniteSets, TLC

VARIABLES
    \* ---- main.py / YOLOv8Model.run_model ----
    pc,             \* position of the main script
    cur_model_conf, \* config['face_detection']['model_conf'], in thousandths
    translator,     \* config['face_detection']['names']: key string -> label
    monitors,       \* len(ImageDisplayer.monitors)
    ret,            \* run_model's local ret
    frame,          \* run_model's local frame: "None" or "Frame"
    dets,           \* rows of boxes.data that model.predict returned
    drawn,          \* what one_object_display has drawn on the current frame
    fault,          \* the exception that left the loop body, or "none"
    faultAt,        \* index of the detection at which it was raised, or 0
    predictCalled,  \* model.predict ran in this iteration
    showCalled,     \* show_frame_on_monitor ran in this iteration
    polls,          \* cv2.waitKey calls in this iteration
    pressed_key,    \* run_model's local pressed_key
    windows,        \* the HighGUI windows that exist
    \* ---- WebCamImageCaptor ----
    w_state,        \* "none", "built", "halfbuilt" (__init__ raised), "dead"
    vid_open,       \* self.vid.isOpened()
    vid_releases,   \* calls of self.vid.release()
    w_fault,        \* exception of the last WebCamImageCaptor call
    w_last,         \* the method of WebCamImageCaptor called last
    \* ---- BaslerImageCaptor ----
    devices,        \* len(self.devices)
    b_state,        \* "none", "built", "halfbuilt", "dead"
    b_hasCamera,    \* the attribute self.camera exists
    b_open,         \* self.camera.IsOpen()
    b_grabbing,     \* self.camera.IsGrabbing()
    b_opens,        \* calls of self.camera.Open()
    b_closes,       \* calls of self.camera.Close()
    b_fault,        \* exception of the last BaslerImageCaptor call
    b_result,       \* how the last get_frame's grab went, and what it returned
    b_index,        \* the camera_index __init__ was given
    b_last,         \* the method of BaslerImageCaptor called last
    \* ---- ConfigLoader ----
    cl_instance,    \* ConfigLoader._instance is not None
    file_path,      \* _instance.file_path
    is_loaded,      \* _instance._is_loaded
    config,         \* _instance.config, "unset" while the attribute is missing
    fs,             \* the files on disk: path -> content
    reads,          \* json.load calls on an opened configuration file
    firstLoaded,    \* the value of the first successful load, or "unset"
    cfg_result,     \* what the last get_config access produced
    \* ---- ImageDisplayer, called directly ----
    d_last,         \* the display call made last
    d_index,        \* the monitor_number show_frame_on_monitor was given
    d_frame,        \* the frame it was given: "None" or "Frame"
    d_before,       \* the windows that existed when it was called
    d_fault         \* the exception it raised, or "none"

mainVars == <<pc, cur_model_conf, translator, monitors, ret, frame, dets, drawn,
              fault, faultAt, predictCalled, showCalled, polls, pressed_key,
              windows>>
webcamVars == <<w_state, vid_open, vid_releases, w_fault, w_last>>
baslerVars == <<devices, b_state, b_hasCamera, b_open, b_grabbing, b_opens,
                b_closes, b_fault, b_result, b_index, b_last>>
configVars == <<cl_instance, file_path, is_loaded, config, fs, reads,
                firstLoaded, cfg_result>>
mainVars_but_pc == <<cur_model_conf, translator, monitors, ret, frame, dets,
                     drawn, fault, faultAt, predictCalled, showCalled, polls,
                     pressed_key, windows>>
displayVars == <<d_last, d_index, d_frame, d_before, d_fault>>
vars == <<mainVars, webcamVars, baslerVars, configVars, displayVars>>

----------------------------------------------------------------------------
(* Bounds of the model *)

MaxDets == 2        \* most rows model.predict returns for one frame
MaxMonitors == 2    \* most monitors get_monitors() enumerates
MaxDevices == 3     \* most Basler devices EnumerateDevices() finds
MaxReads == 3       \* most json.load calls followed in one behaviour

(* Inputs *)
Confs == {400, 500, 914}            \* raw confidences obj[4], in thousandths
Thresholds == {500, 900}            \* model_conf values, in thousandths
Classes == {0, 17}                  \* class ids obj[5]
Translators == { <<>>, ("0" :> "person"), ("0" :> "person" @@ "17" :> "cat") }
Detections == [conf : Confs, cls : Classes]
DetLists == UNION { [1..n -> Detections] : n \in 0..MaxDets }
KeyCodes == {-1, 27, 81, 113}       \* cv2.waitKey(1): -1 (no key), Esc, 'Q', 'q'

----------------------------------------------------------------------------
(* Conversions *)

Digit(d) ==
    CASE d = 0 -> "0" [] d = 1 -> "1" [] d = 2 -> "2" [] d = 3 -> "3"
      [] d = 4 -> "4" [] d = 5 -> "5" [] d = 6 -> "6" [] d = 7 -> "7"
      [] d = 8 -> "8" [] d = 9 -> "9"

RECURSIVE IntToStr(_)
\* str(int(x)) of a whole, non-negative x
IntToStr(n) ==
    IF n < 10 THEN Digit(n) ELSE IntToStr(n \div 10) \o Digit(n % 10)

\* round(obj[4], 2): thousandths to the nearest hundredth
Round2(c) == (c + 5) \div 10

RECURSIVE NatAnd(_, _)
NatAnd(a, b) ==
    IF a = 0 \/ b = 0 THEN 0
    ELSE 2 * NatAnd(a \div 2, b \div 2) + (IF a % 2 = 1 /\ b % 2 = 1 THEN 1 ELSE 0)

\* Python's k & m for a mask 0 <= m < 2^16: two's complement of a negative k
PyAnd(k, m) == NatAnd(k % 65536, m)

ord_q == 113

----------------------------------------------------------------------------
(* WebCamImageCaptor *)

\* __init__: cv2.VideoCapture(video_source) opened the device or did not
WebCamInit(opened) ==
    /\ w_state = "none"
    /\ vid_open' = opened
    /\ w_state' = IF opened THEN "built" ELSE "halfbuilt"
    /\ w_fault' = IF opened THEN "none" ELSE "Exception"
    /\ w_last' = "__init__"
    /\ UNCHANGED vid_releases

\* get_frame: (ret, frame) when self.vid.read() reports readOk
webcam_get_frame(readOk) ==
    IF vid_open
    THEN IF readOk THEN <<TRUE, "Frame">> ELSE <<FALSE, "None">>
    ELSE <<FALSE, "None">>

\* release: self.vid exists from the first line of __init__ on
webcam_release ==
    /\ w_fault' = "none"
    /\ IF vid_open
       THEN /\ vid_open' = FALSE
            /\ vid_releases' = vid_releases + 1
       ELSE UNCHANGED <<vid_open, vid_releases>>

WebCamRelease ==
    /\ w_state = "built"
    /\ w_last' = "release"
    /\ webcam_release
    /\ UNCHANGED w_state

\* __exit__
WebCamExit ==
    /\ w_state = "built"
    /\ w_last' = "__exit__"
    /\ webcam_release
    /\ UNCHANGED w_state

\* __del__, also of the object whose __init__ raised
WebCamDel ==
    /\ w_state \in {"built", "halfbuilt"}
    /\ w_last' = "__del__"
    /\ webcam_release
    /\ w_state' = "dead"

----------------------------------------------------------------------------
(* ImageDisplayer *)

\* get_monitors_positions: the (x, y) origin of each enumerated monitor
get_monitors_positions(n) == [i \in 1..n |-> <<(i - 1) * 1920, 0>>]

window_name(monitor_number) == "Monitor " \o IntToStr(monitor_number)

\* cv2.namedWindow + cv2.setWindowProperty + cv2.imshow: the window of that
\* name is created if it does not exist, on the screen the window system
\* picks (placed); an existing window keeps its screen.  The image is replaced.
imshow(wins, name, image, placed) ==
    IF \E w \in wins : w.name = name
    THEN { IF w.name = name THEN [w EXCEPT !.image = image] ELSE w : w \in wins }
    ELSE wins \cup { [name |-> name, image |-> image, screen |-> placed,
                      fullscreen |-> TRUE] }

\* a range test that lets the index len(self.monitors) through
show_frame_on_monitor_gt(wins, nMonitors, fr, image, monitor_number, placed) ==
    IF monitor_number > nMonitors \/ monitor_number < 0
    THEN wins
    ELSE IF fr = "None"
    THEN wins
    ELSE imshow(wins, window_name(monitor_number), image, placed)

\* show_frame_on_monitor(frame, monitor_number): the windows afterwards.
\* fr is the frame ("None" when absent), image what is drawn on it.
show_frame_on_monitor(wins, nMonitors, fr, image, monitor_number, placed) ==
    IF monitor_number >= nMonitors \/ monitor_number < 0
    THEN wins                      \* "monitor not found": return
    ELSE IF fr = "None"
    THEN wins                      \* "empty image": return
    ELSE LET xy == get_monitors_positions(nMonitors)[monitor_number + 1]
         IN  imshow(wins, window_name(monitor_number), image, placed)

\* show_frame_on_monitor: the exception it raises, or "none".  The only
\* statement that can raise on a list of monitors and an image is the
\* indexing of line 57, which Python accepts for -n .. n-1.
show_frame_fault(nMonitors, fr, monitor_number) ==
    IF monitor_number >= nMonitors \/ monitor_number < 0
    THEN "none"
    ELSE IF fr = "None"
    THEN "none"
    ELSE IF monitor_number \in (0 - nMonitors)..(nMonitors - 1)
    THEN "none"
    ELSE "IndexError"

\* the default of the parameter monitor_number, which run_model never passes
monitor_number_default == 1

----------------------------------------------------------------------------
(* YOLOv8Model.detect_objects *)

\* a threshold test that lets the threshold itself through
passes_threshold_ge(obj, conf) == obj.conf >= conf

\* obj[4] > current_model_conf
passes_threshold(obj, conf) == obj.conf > conf

\* str(int(obj[5])) in translate
known_label(obj, translate) == IntToStr(obj.cls) \in DOMAIN translate

\* a loop body that looks the label up without testing for the key first
one_detection_keyerror(fr, obj, i, conf, translate) ==
    IF obj.conf > conf
    THEN IF IntToStr(obj.cls) \in DOMAIN translate
         THEN IF fr = "None"
              THEN [act |-> "raise", exc |-> "cv2.error"]
              ELSE [act |-> "draw",
                    ann |-> [idx |-> i, descr |-> translate[IntToStr(obj.cls)],
                             conf |-> Round2(obj.conf)]]
         ELSE [act |-> "raise", exc |-> "KeyError"]
    ELSE [act |-> "skip"]

\* the body of "for obj in boxes.data" for one row: what it draws, or the
\* exception it raises (cv2.rectangle on an absent frame)
one_detection(fr, obj, i, conf, translate) ==
    IF passes_threshold(obj, conf)
    THEN IF known_label(obj, translate)
         THEN LET descr == translate[IntToStr(obj.cls)]
              IN  IF fr = "None"
                  THEN [act |-> "raise", exc |-> "cv2.error"]
                  ELSE [act |-> "draw",
                        ann |-> [idx |-> i, descr |-> descr,
                                 conf |-> Round2(obj.conf)]]
         ELSE [act |-> "skip"]
    ELSE [act |-> "skip"]

RECURSIVE boxes_loop(_, _, _, _, _, _)
\* the loop over boxes.data from row i on, acc being what is drawn so far
boxes_loop(fr, data, i, conf, translate, acc) ==
    IF i > Len(data)
    THEN [drawn |-> acc, fault |-> "none", faultAt |-> 0]
    ELSE LET r == one_detection(fr, data[i], i, conf, translate)
         IN  CASE r.act = "raise" ->
                     [drawn |-> acc, fault |-> r.exc, faultAt |-> i]
               [] r.act = "draw" ->
                     boxes_loop(fr, data, i + 1, conf, translate, Append(acc, r.ann))
               [] OTHER ->
                     boxes_loop(fr, data, i + 1, conf, translate, acc)

detect_objects(fr, data, conf, translate) ==
    boxes_loop(fr, data, 1, conf, translate, <<>>)

----------------------------------------------------------------------------
(* main.py and YOLOv8Model.run_model *)

\* the camera_type parameter's default, which main.py never overrides
camera_type == "usb"

LoopPcs == {"capture", "detect", "display", "poll"}
EndedPcs == {"exited", "killed"}

NoResult == [grab |-> "none", returned |-> "nothing"]

displayUnused ==
    /\ d_last = "none" /\ d_index = 0 /\ d_frame = "None"
    /\ d_before = {} /\ d_fault = "none"

configUnused ==
    /\ cl_instance = FALSE /\ file_path = "None" /\ is_loaded = FALSE
    /\ config = "unset" /\ fs = <<>> /\ reads = 0
    /\ firstLoaded = "unset" /\ cfg_result = [kind |-> "none", val |-> "none"]

baslerUnused ==
    /\ devices = 0 /\ b_state = "none" /\ b_hasCamera = FALSE
    /\ b_open = FALSE /\ b_grabbing = FALSE /\ b_opens = 0 /\ b_closes = 0
    /\ b_fault = "none" /\ b_result = NoResult
    /\ b_index = 0 /\ b_last = "none"

webcamFresh ==
    /\ w_state = "none" /\ vid_open = FALSE /\ vid_releases = 0
    /\ w_fault = "none" /\ w_last = "none"

iterationFresh ==
    /\ ret = FALSE /\ frame = "None" /\ dets = <<>> /\ drawn = <<>>
    /\ fault = "none" /\ faultAt = 0
    /\ predictCalled = FALSE /\ showCalled = FALSE /\ polls = 0
    /\ pressed_key = -1

\* the state when main.py reaches line 16: the configuration is loaded, the
\* displayer has enumerated the monitors, no captor exists yet
Init ==
    /\ pc = "construct"
    /\ cur_model_conf \in Thresholds
    /\ translator \in Translators
    /\ monitors \in 1..MaxMonitors
    /\ iterationFresh
    /\ windows = {}
    /\ webcamFresh
    /\ baslerUnused
    /\ configUnused
    /\ displayUnused

\* main.py line 16: captor = WebCamImageCaptor(...); an exception ends the script
Construct ==
    /\ pc = "construct"
    /\ \E opened \in BOOLEAN :
          /\ WebCamInit(opened)
          /\ pc' = IF opened THEN "capture" ELSE "startup_failed"
    /\ UNCHANGED <<cur_model_conf, translator, monitors, ret, frame, dets, drawn,
                   fault, faultAt, predictCalled, showCalled, polls,
                   pressed_key, windows>>
    /\ UNCHANGED <<baslerVars, configVars, displayVars>>

\* run_model lines 138-144: one capture.  camera_type 'basler' calls
\* captor.capture_from_basler, which no captor class defines.
Capture ==
    /\ pc = "capture"
    /\ \E readOk \in BOOLEAN :
          LET got == IF camera_type = "usb" THEN webcam_get_frame(readOk)
                     ELSE <<FALSE, "None">>
          IN  /\ ret' = got[1]
              /\ frame' = got[2]
    /\ fault' = IF camera_type = "basler" THEN "AttributeError" ELSE "none"
    /\ pc' = IF camera_type = "basler" THEN "raised" ELSE "detect"
    /\ dets' = <<>>
    /\ drawn' = <<>>
    /\ faultAt' = 0
    /\ predictCalled' = FALSE
    /\ showCalled' = FALSE
    /\ polls' = 0
    /\ UNCHANGED <<cur_model_conf, translator, monitors, pressed_key, windows>>
    /\ UNCHANGED <<webcamVars, baslerVars, configVars, displayVars>>

\* run_model lines 145-150: detect_objects on a captured frame
Detect ==
    /\ pc = "detect"
    /\ frame # "None"
    /\ \E data \in DetLists :
          LET r == detect_objects(frame, data, cur_model_conf, translator)
          IN  /\ dets' = data
              /\ drawn' = r.drawn
              /\ fault' = r.fault
              /\ faultAt' = r.faultAt
              /\ pc' = IF r.fault = "none" THEN "display" ELSE "raised"
    /\ predictCalled' = TRUE
    /\ UNCHANGED <<cur_model_conf, translator, monitors, ret, frame, showCalled,
                   polls, pressed_key, windows>>
    /\ UNCHANGED <<webcamVars, baslerVars, configVars, displayVars>>

\* run_model lines 145-150 when get_frame failed: detect_objects is called
\* with frame None all the same.  What model.predict(None) does is the
\* library's affair: it returns rows that belong to no captured frame ...
DetectAbsentFrame ==
    /\ pc = "detect"
    /\ frame = "None"
    /\ \E data \in DetLists :
          LET r == detect_objects(frame, data, cur_model_conf, translator)
          IN  /\ dets' = data
              /\ drawn' = r.drawn
              /\ fault' = r.fault
              /\ faultAt' = r.faultAt
              /\ pc' = IF r.fault = "none" THEN "display" ELSE "raised"
    /\ predictCalled' = TRUE
    /\ UNCHANGED <<cur_model_conf, translator, monitors, ret, frame, showCalled,
                   polls, pressed_key, windows>>
    /\ UNCHANGED <<webcamVars, baslerVars, configVars, displayVars>>

\* ... or it raises
PredictRaises ==
    /\ pc = "detect"
    /\ frame = "None"
    /\ predictCalled' = TRUE
    /\ fault' = "PredictError"
    /\ pc' = "raised"
    /\ UNCHANGED <<cur_model_conf, translator, monitors, ret, frame, dets, drawn,
                   faultAt, showCalled, polls, pressed_key, windows>>
    /\ UNCHANGED <<webcamVars, baslerVars, configVars, displayVars>>

\* run_model line 152: displayer.show_frame_on_monitor(frame).  The rows of
\* boxes.data were local to detect_objects.
Display ==
    /\ pc = "display"
    /\ \E placed \in 0..(monitors - 1) :
          windows' = show_frame_on_monitor(windows, monitors, frame, drawn,
                                           monitor_number_default, placed)
    /\ showCalled' = TRUE
    /\ dets' = <<>>
    /\ pc' = "poll"
    /\ UNCHANGED <<cur_model_conf, translator, monitors, ret, frame, drawn, fault,
                   faultAt, predictCalled, polls, pressed_key>>
    /\ UNCHANGED <<webcamVars, baslerVars, configVars, displayVars>>

\* run_model lines 156-159: cv2.waitKey(1), and on 'q' destroyAllWindows; break
PollKey ==
    /\ pc = "poll"
    /\ \E k \in KeyCodes :
          /\ pressed_key' = k
          /\ IF PyAnd(k, 255) = ord_q
             THEN /\ windows' = {}
                  /\ pc' = "stopped"
             ELSE /\ windows' = windows
                  /\ pc' = "capture"
    /\ polls' = polls + 1
    /\ UNCHANGED <<cur_model_conf, translator, monitors, ret, frame, dets, drawn,
                   fault, faultAt, predictCalled, showCalled>>
    /\ UNCHANGED <<webcamVars, baslerVars, configVars, displayVars>>

\* the script ends, by run_model returning or by an uncaught exception: the
\* interpreter finalises the module globals, captor.__del__ runs
InterpreterExit ==
    /\ pc \in {"stopped", "raised", "startup_failed"}
    /\ WebCamDel
    /\ pc' = "exited"
    /\ UNCHANGED mainVars_but_pc
    /\ UNCHANGED <<baslerVars, configVars, displayVars>>

\* the process is terminated from outside (a signal): no Python code runs,
\* main.py installs no handler and holds the captor in no with/finally
Terminate ==
    /\ pc \notin EndedPcs
    /\ pc' = "killed"
    /\ UNCHANGED mainVars_but_pc
    /\ UNCHANGED <<webcamVars, baslerVars, configVars, displayVars>>

Next ==
    \/ Construct
    \/ Capture
    \/ Detect
    \/ DetectAbsentFrame
    \/ PredictRaises
    \/ Display
    \/ PollKey
    \/ InterpreterExit
    \/ Terminate

Spec == Init /\ [][Next]_vars

----------------------------------------------------------------------------
(* BaslerImageCaptor *)

CameraIndexes == -1..MaxDevices
GrabOutcomes == {"succeeded", "failed", "timeout"}

\* __init__(camera_index, path_to_basler_pfs_config_file); loadOk: whether
\* FeaturePersistence.Load accepted the file
BaslerInit(camera_index, loadOk) ==
    /\ b_state = "none"
    /\ b_index' = camera_index
    /\ b_last' = "__init__"
    /\ IF \/ (devices = 1 \/ devices = 2) /\ camera_index = 0
          \/ devices = 2 /\ camera_index = 1
       THEN /\ b_hasCamera' = TRUE
            /\ b_open' = TRUE
            /\ b_opens' = b_opens + 1
            /\ IF loadOk
               THEN /\ b_grabbing' = TRUE
                    /\ b_state' = "built"
                    /\ b_fault' = "none"
               ELSE /\ b_grabbing' = FALSE
                    /\ b_state' = "halfbuilt"
                    /\ b_fault' = "ValueError"
       ELSE /\ b_state' = "halfbuilt"
            /\ b_fault' = "ValueError"
            /\ UNCHANGED <<b_hasCamera, b_open, b_opens, b_grabbing>>
    /\ UNCHANGED <<devices, b_closes, b_result>>

\* get_frame; outcome: how RetrieveResult(5000, TimeoutHandling_ThrowException)
\* ends when the camera is grabbing
BaslerGetFrame(outcome) ==
    /\ b_state = "built"
    /\ b_last' = "get_frame"
    /\ IF b_grabbing
       THEN CASE outcome = "timeout" ->
                    /\ b_fault' = "TimeoutException"
                    /\ b_result' = [grab |-> "timeout", returned |-> "nothing"]
              [] outcome = "succeeded" ->
                    /\ b_fault' = "none"
                    /\ b_result' = [grab |-> "succeeded",
                                    returned |-> <<TRUE, "Frame">>]
              [] OTHER ->
                    /\ b_fault' = "none"
                    /\ b_result' = [grab |-> "failed",
                                    returned |-> <<FALSE, "None">>]
       ELSE /\ b_fault' = "none"
            /\ b_result' = [grab |-> "notgrabbing", returned |-> <<FALSE, "None">>]
    /\ UNCHANGED <<devices, b_state, b_hasCamera, b_open, b_grabbing, b_opens,
                   b_closes, b_index>>

\* release: self.camera.IsGrabbing() is an AttributeError when __init__ left
\* before assigning self.camera
basler_release ==
    IF ~b_hasCamera
    THEN /\ b_fault' = "AttributeError"
         /\ UNCHANGED <<b_grabbing, b_open, b_closes>>
    ELSE /\ b_fault' = "none"
         /\ b_grabbing' = FALSE
         /\ IF b_open
            THEN /\ b_open' = FALSE
                 /\ b_closes' = b_closes + 1
            ELSE UNCHANGED <<b_open, b_closes>>

BaslerRelease ==
    /\ b_state = "built"
    /\ b_last' = "release"
    /\ basler_release
    /\ UNCHANGED <<devices, b_state, b_hasCamera, b_opens, b_result, b_index>>

\* __exit__
BaslerExit ==
    /\ b_state = "built"
    /\ b_last' = "__exit__"
    /\ basler_release
    /\ UNCHANGED <<devices, b_state, b_hasCamera, b_opens, b_result, b_index>>

\* __del__, also of the object whose __init__ raised
BaslerDel ==
    /\ b_state \in {"built", "halfbuilt"}
    /\ b_last' = "__del__"
    /\ basler_release
    /\ b_state' = "dead"
    /\ UNCHANGED <<devices, b_hasCamera, b_opens, b_result, b_index>>

----------------------------------------------------------------------------
(* The captor classes driven through their methods *)

mainUnused ==
    /\ pc = "captors" /\ cur_model_conf = 500 /\ translator = <<>>
    /\ monitors = 1 /\ iterationFresh /\ windows = {}

InitCaptor ==
    /\ mainUnused
    /\ webcamFresh
    /\ devices \in 0..MaxDevices
    /\ b_state = "none" /\ b_hasCamera = FALSE
    /\ b_open = FALSE /\ b_grabbing = FALSE /\ b_opens = 0 /\ b_closes = 0
    /\ b_fault = "none" /\ b_result = NoResult
    /\ b_index = 0 /\ b_last = "none"
    /\ configUnused
    /\ displayUnused

onlyBasler == UNCHANGED <<mainVars, webcamVars, configVars, displayVars>>
onlyWebCam == UNCHANGED <<pc, cur_model_conf, translator, monitors, dets, drawn,
                          fault, faultAt, predictCalled, showCalled, polls,
                          pressed_key, windows, baslerVars, configVars, displayVars>>

BaslerConstruct ==
    /\ \E camera_index \in CameraIndexes, loadOk \in BOOLEAN :
          BaslerInit(camera_index, loadOk)
    /\ onlyBasler

BaslerGetFrameCall ==
    /\ \E outcome \in GrabOutcomes : BaslerGetFrame(outcome)
    /\ onlyBasler

BaslerReleaseCall == BaslerRelease /\ onlyBasler

BaslerExitCall == BaslerExit /\ onlyBasler

BaslerDelCall == BaslerDel /\ onlyBasler

WebCamConstruct ==
    /\ \E opened \in BOOLEAN : WebCamInit(opened)
    /\ UNCHANGED <<ret, frame>>
    /\ onlyWebCam

WebCamGetFrameCall ==
    /\ w_state = "built"
    /\ \E readOk \in BOOLEAN :
          /\ ret' = webcam_get_frame(readOk)[1]
          /\ frame' = webcam_get_frame(readOk)[2]
    /\ w_last' = "get_frame"
    /\ w_fault' = "none"
    /\ UNCHANGED <<w_state, vid_open, vid_releases>>
    /\ onlyWebCam

WebCamReleaseCall ==
    /\ WebCamRelease
    /\ UNCHANGED <<ret, frame>>
    /\ onlyWebCam

WebCamExitCall ==
    /\ WebCamExit
    /\ UNCHANGED <<ret, frame>>
    /\ onlyWebCam

WebCamDelCall ==
    /\ WebCamDel
    /\ UNCHANGED <<ret, frame>>
    /\ onlyWebCam

NextCaptor ==
    \/ BaslerConstruct
    \/ BaslerGetFrameCall
    \/ BaslerReleaseCall
    \/ BaslerExitCall
    \/ BaslerDelCall
    \/ WebCamConstruct
    \/ WebCamGetFrameCall
    \/ WebCamReleaseCall
    \/ WebCamExitCall
    \/ WebCamDelCall

SpecCaptor == InitCaptor /\ [][NextCaptor]_vars

----------------------------------------------------------------------------
(* ConfigLoader *)

Paths == {"a.json", "b.json"}
\* file_path arguments: a path, the default None, the empty string
PathArgs == Paths \cup {"None", ""}
\* what a file holds: nothing (no such file), text that is not JSON, a JSON
\* list, or one of two JSON objects
Contents == {"missing", "malformed", "list", "dictA", "dictB"}
Dicts == {"dictA", "dictB"}

NoAccess == [kind |-> "none", val |-> "none"]

\* Python's truth value of file_path
truthy(path) == path # "None" /\ path # ""

\* __new__(cls, file_path): the first call makes the instance and fixes its path
ConfigLoaderNew(path) ==
    /\ IF ~cl_instance
       THEN /\ cl_instance' = TRUE
            /\ file_path' = path
       ELSE UNCHANGED <<cl_instance, file_path>>
    /\ UNCHANGED <<is_loaded, config, fs, reads, firstLoaded, cfg_result>>

\* load_config, then validate_config: the attributes afterwards and the
\* exception raised, if any
load_config ==
    IF ~is_loaded /\ truthy(file_path)
    THEN LET content == fs[file_path]
         IN  CASE content = "missing" ->
                     [config |-> config, is_loaded |-> FALSE, read |-> 0,
                      exc |-> "Exception: file not found"]
               [] content = "malformed" ->
                     [config |-> config, is_loaded |-> FALSE, read |-> 1,
                      exc |-> "Exception: JSON parse error"]
               [] content \notin Dicts ->
                     [config |-> content, is_loaded |-> FALSE, read |-> 1,
                      exc |-> "ValueError"]
               [] OTHER ->
                     [config |-> content, is_loaded |-> TRUE, read |-> 1,
                      exc |-> "none"]
    ELSE [config |-> config, is_loaded |-> is_loaded, read |-> 0, exc |-> "none"]

\* the property get_config
GetConfig ==
    /\ cl_instance
    /\ reads < MaxReads
    /\ LET r == IF ~is_loaded THEN load_config
                ELSE [config |-> config, is_loaded |-> is_loaded, read |-> 0,
                      exc |-> "none"]
       IN  /\ config' = r.config
           /\ is_loaded' = r.is_loaded
           /\ reads' = reads + r.read
           /\ cfg_result' =
                 IF r.exc # "none" THEN [kind |-> "raise", val |-> r.exc]
                 ELSE IF r.config = "unset"
                 THEN [kind |-> "raise", val |-> "AttributeError"]
                 ELSE [kind |-> "value", val |-> r.config]
           /\ firstLoaded' =
                 IF firstLoaded = "unset" /\ r.is_loaded THEN r.config
                 ELSE firstLoaded
    /\ UNCHANGED <<cl_instance, file_path, fs>>

\* the file at a path is written, replaced or removed by someone else
EditFile(path, content) ==
    /\ fs[path] # content
    /\ fs' = [fs EXCEPT ![path] = content]
    /\ UNCHANGED <<cl_instance, file_path, is_loaded, config, reads, firstLoaded,
                   cfg_result>>

InitConfig ==
    /\ mainUnused
    /\ webcamFresh
    /\ baslerUnused
    /\ cl_instance = FALSE /\ file_path = "None" /\ is_loaded = FALSE
    /\ config = "unset" /\ reads = 0
    /\ firstLoaded = "unset" /\ cfg_result = NoAccess
    /\ fs \in [Paths -> Contents]
    /\ displayUnused

onlyConfig == UNCHANGED <<mainVars, webcamVars, baslerVars, displayVars>>

NewCall == (\E path \in PathArgs : ConfigLoaderNew(path)) /\ onlyConfig

GetConfigCall == GetConfig /\ onlyConfig

EditFileCall ==
    (\E path \in Paths, content \in Contents : EditFile(path, content)) /\ onlyConfig

NextConfig ==
    \/ NewCall
    \/ GetConfigCall
    \/ EditFileCall

SpecConfig == InitConfig /\ [][NextConfig]_vars

----------------------------------------------------------------------------
(* ImageDisplayer driven through show_frame_on_monitor *)

\* monitor_number arguments: below, within and beyond the enumerated monitors
ShowIndexes == -1..(MaxMonitors + 1)
\* what is drawn on the frame that is passed
ShowImages == { <<>>, <<[idx |-> 1, descr |-> "person", conf |-> 91]>> }

InitDisplay ==
    /\ pc = "display calls" /\ cur_model_conf = 500 /\ translator = <<>>
    /\ monitors \in 1..MaxMonitors
    /\ iterationFresh /\ windows = {}
    /\ webcamFresh
    /\ baslerUnused
    /\ configUnused
    /\ displayUnused

onlyDisplay == UNCHANGED <<pc, cur_model_conf, translator, monitors, ret, frame,
                           dets, drawn, fault, faultAt, predictCalled,
                           showCalled, polls, pressed_key, webcamVars,
                           baslerVars, configVars>>

\* displayer.show_frame_on_monitor(frame, monitor_number)
ShowFrameCall ==
    /\ \E monitor_number \in ShowIndexes, fr \in {"None", "Frame"},
          image \in ShowImages, placed \in 0..(monitors - 1) :
          /\ windows' = show_frame_on_monitor(windows, monitors, fr,
                            IF fr = "None" THEN <<>> ELSE image,
                            monitor_number, placed)
          /\ d_fault' = show_frame_fault(monitors, fr, monitor_number)
          /\ d_index' = monitor_number
          /\ d_frame' = fr
    /\ d_before' = windows
    /\ d_last' = "show_frame_on_monitor"
    /\ onlyDisplay

\* cv2.destroyAllWindows()
DestroyAllWindowsCall ==
    /\ windows # {}
    /\ windows' = {}
    /\ d_before' = windows
    /\ d_last' = "destroyAllWindows"
    /\ UNCHANGED <<d_index, d_frame, d_fault>>
    /\ onlyDisplay

NextDisplay ==
    \/ ShowFrameCall
    \/ DestroyAllWindowsCall

SpecDisplay == InitDisplay /\ [][NextDisplay]_vars

----------------------------------------------------------------------------
(* Claims *)

\* the label-table key of each class id of Classes, written out
KeyOf == (0 :> "0" @@ 17 :> "17")
HasEntry(cls) == KeyOf[cls] \in DOMAIN translator

\* how many times detection i of dets has been drawn on the frame
Count(i) == Cardinality({ j \in 1..Len(drawn) : drawn[j].idx = i })

\* C1: when get_frame reports failure in an iteration, that iteration runs
\* neither detection nor display, and no exception leaves the loop body.
C1_SkipOnFailedCapture ==
    (pc \in LoopPcs \cup {"raised", "stopped"} /\ ret = FALSE)
        => (~predictCalled /\ ~showCalled /\ fault = "none")

\* C3: no detection with confidence <= the threshold is drawn, and on a
\* captured frame every detection with confidence > the threshold and a
\* class id that has an entry in the label table is drawn exactly once.
C3_ThresholdFiltering ==
    \A i \in 1..Len(dets) :
        /\ dets[i].conf <= cur_model_conf => Count(i) = 0
        /\ (frame # "None" /\ dets[i].conf > cur_model_conf /\ HasEntry(dets[i].cls))
              => Count(i) = 1

C3_Witness ==
    /\ pc = "display" /\ frame = "Frame" /\ Len(dets) = 2
    /\ dets[1].conf = cur_model_conf
    /\ dets[2].conf > cur_model_conf /\ HasEntry(dets[2].cls)
    /\ Len(drawn) = 1 /\ drawn[1].idx = 2

\* C4: a detection whose class id has no entry in the label table is never
\* drawn and raises nothing, whatever its confidence, and on a captured
\* frame the detections after it are still processed: none raises and each
\* one above the threshold with a known class is drawn once.
C4_UnknownClassDropped ==
    \A i \in 1..Len(dets) :
        ~HasEntry(dets[i].cls) =>
            /\ Count(i) = 0
            /\ faultAt # i
            /\ frame # "None" =>
                  /\ fault = "none"
                  /\ \A j \in (i + 1)..Len(dets) :
                        (dets[j].conf > cur_model_conf /\ HasEntry(dets[j].cls))
                            => Count(j) = 1

C4_Witness ==
    /\ pc = "display" /\ frame = "Frame" /\ Len(dets) = 2
    /\ ~HasEntry(dets[1].cls) /\ dets[1].conf > cur_model_conf
    /\ HasEntry(dets[2].cls) /\ dets[2].conf > cur_model_conf
    /\ Count(1) = 0 /\ Count(2) = 1

\* C6: once the process has ended, however the loop ended, the camera has
\* been released exactly once: it is not left open and not released twice.
C6_ReleasedExactlyOnce ==
    pc \in EndedPcs => (~vid_open /\ vid_releases <= 1)

\* C9: the loop is over only through the quit key: the last polled key is
\* 'q', polled once in that iteration after the display step, and the
\* display surfaces are torn down.
C9_StopsOnlyOnQuitKey ==
    pc \in {"stopped", "raised"}
        => (pressed_key = ord_q /\ polls = 1 /\ showCalled /\ windows = {})

\* C10: in an iteration whose capture succeeded, once the display step is
\* done the annotated frame is on the configured monitor, whenever that
\* monitor is among the enumerated ones.
C10_PresentedOnConfiguredMonitor ==
    (pc = "poll" /\ ret /\ monitor_number_default < monitors)
        => \E w \in windows :
              /\ w.name = "Monitor 1"
              /\ w.image = drawn
              /\ w.screen = monitor_number_default

\* C5: an acquisition timeout in BaslerImageCaptor.get_frame comes back to
\* the caller as (False, None) and raises nothing.
C5_TimeoutIsPerFrameFailure ==
    (b_last = "get_frame" /\ b_result.grab = "timeout")
        => (b_fault = "none" /\ b_result.returned = <<FALSE, "None">>)

\* C7: whatever release calls are made on a captor (release, __exit__,
\* __del__), none raises, the device is closed at most once and is never
\* opened again.
C7_ReleaseIdempotent ==
    /\ b_last \in {"release", "__exit__", "__del__"} => b_fault = "none"
    /\ b_closes <= 1 /\ b_opens <= 1
    /\ b_closes = 1 => ~b_open
    /\ w_last \in {"release", "__exit__", "__del__"} => w_fault = "none"
    /\ vid_releases <= 1
    /\ vid_releases = 1 => ~vid_open

\* whether the constructor was given an index that is not among the
\* enumerated devices, or the number of devices is not 1 or 2
IndexAbsent == b_index \notin 0..(devices - 1) \/ devices \notin {1, 2}

\* C8: constructing the Basler source with an absent index, or with a number
\* of devices other than 1 or 2, fails in __init__ with the ValueError and
\* opens no device, and the end-of-life release of that object raises nothing.
C8_AbsentIndexFailsCleanly ==
    (b_state # "none" /\ IndexAbsent)
        => /\ b_opens = 0 /\ ~b_open
           /\ b_last = "__init__" => (b_fault = "ValueError" /\ b_state = "halfbuilt")
           /\ b_last = "__del__" => b_fault = "none"

\* C2: over any sequence of constructions and get_config accesses the
\* configuration file is read at most once, failed load attempts included,
\* and every access that returns a value returns the first loaded one.
C2_ReadAtMostOnce ==
    /\ reads <= 1
    /\ (cfg_result.kind = "value" /\ firstLoaded # "unset")
          => cfg_result.val = firstLoaded

\* C11: a show_frame_on_monitor call with a monitor index that is negative
\* or >= the number of enumerated monitors, or with an absent frame, raises
\* nothing and leaves the set of windows, and every window in it, as it was.
C11_OutOfRangeOrAbsentIsNoOp ==
    (/\ d_last = "show_frame_on_monitor"
     /\ (d_index < 0 \/ d_index >= monitors \/ d_frame = "None"))
        => (windows = d_before /\ d_fault = "none")

C11_Witness ==
    /\ d_last = "show_frame_on_monitor"
    /\ d_index = monitors /\ d_frame = "Frame"
    /\ windows # {} /\ windows = d_before

====
